---- MODULE Spec2Model ----
(***************************************************************************)
(* TextSummarization (src/aggregation/text_summarization.py): aggregation  *)
(* of crowd-sourced texts through a summarization model, with optional     *)
(* random input permutations.                                              *)
(*                                                                         *)
(* The pre-trained model behind _generate_output is an opaque function     *)
(* from the ordered texts to one text: deterministic (beam search), but    *)
(* otherwise arbitrary.  It is modelled by the variable `generated`, the   *)
(* part of that function that the run has observed so far.                 *)
(***************************************************************************)
EXTENDS Integers, Sequences, FiniteSets, TLC

\* ---------------------------------------------------------------- bounds
\* Largest number of input records (and of texts in a direct call).
MaxRecords == 2
\* Largest value of n_permutations, apart from TooMany below.
MaxPermutations == 2

\* ------------------------------------------------------------- universes
\* Texts in ascending (lexicographic) order; the model's outputs are texts too.
TextValues == <<"a", "b">>
\* Task ids in ascending order.
TaskValues == <<"T1", "T2">>
Performers == {"w1"}

Range(s) == {s[i] : i \in 1..Len(s)}
Texts == Range(TextValues)
Tasks == Range(TaskValues)

\* Python's None for n_permutations (an Optional[int]); not a valid size.
None == -1

\* The aggregators that can be passed as permutation_aggregator:
\*   "None"              - no aggregator,
\*   "FirstText"         - an aggregator that returns, per task, its first text,
\*   "TextSummarization" - another instance of this class (default settings).
Aggregators == {"None", "FirstText", "TextSummarization"}

Records == [task : Tasks, performer : Performers, text : Texts]

SeqsUpTo(S, n) == UNION {[1..k -> S] : k \in 0..n}

VARIABLES
  use_permutations,        \* attribute, line 67
  n_permutations,          \* attribute, line 68
  permutation_aggregator,  \* attribute, line 69
  entry,                   \* which method the caller invoked
  data,                    \* fit_predict's argument: a frame, rows in input order
  arg,                     \* _aggregate_one's argument on a direct call
  pc,                      \* position of the call
  err,                     \* the exception that ended the call, "" if none
  groups,                  \* keys of data.groupby('task') not yet visited
  task,                    \* loop variable of fit_predict
  tasks,                   \* local of fit_predict
  output,                  \* local of fit_predict
  result_,                 \* attribute set by fit_predict
  outputs,                 \* parameter of _aggregate_one
  permutations_idx,        \* local of _aggregate_one
  permutations,            \* local of _aggregate_one (after line 96)
  generated_outputs,       \* local of _aggregate_one
  ret,                     \* value returned by _aggregate_one
  generated,               \* the model's outputs observed so far
  oracle_calls,            \* history: every call of _generate_output
  delegate_calls           \* history: frames passed to permutation_aggregator

config == <<use_permutations, n_permutations, permutation_aggregator, entry, data, arg>>
locals == <<outputs, permutations_idx, permutations, generated_outputs, ret>>
loopvars == <<groups, task, tasks, output>>
vars == <<config, pc, err, loopvars, result_, locals, generated, oracle_calls,
          delegate_calls>>

\* ------------------------------------------------------------ values
Str(t) == [type |-> "str", values |-> <<t>>]
Series(values) == [type |-> "Series", values |-> values]
NoValue == [type |-> "unset", values |-> <<>>]
NoResult == [set |-> FALSE, index |-> <<>>, values |-> <<>>]

\* A data frame: its columns and its rows (records over those columns).
Frame(columns, rows) == [columns |-> columns, rows |-> rows]
\* The columns fit_predict selects (line 75).
FitPredictColumns == {"task", "performer", "text"}
\* The key under which _aggregate_one files every generated output (line 100).
SyntheticTask == ""

\* ------------------------------------------------------------ grouping
\* Keys of data.groupby('task'): the distinct tasks, in ascending order.
GroupKeysPerRow(rows) == [i \in 1..Len(rows) |-> rows[i].task]
GroupKeys(rows) ==
  SelectSeq(TaskValues, LAMBDA t : \E i \in 1..Len(rows) : rows[i].task = t)

\* list(df['text']) of the group of task t: its texts, in the order of the rows.
RECURSIVE GroupTextsReversed(_, _)
GroupTextsReversed(rows, t) ==
  IF rows = <<>> THEN <<>>
  ELSE IF Head(rows).task = t
       THEN Append(GroupTextsReversed(Tail(rows), t), Head(rows).text)
       ELSE GroupTextsReversed(Tail(rows), t)
RECURSIVE GroupTexts(_, _)
GroupTexts(rows, t) ==
  IF rows = <<>> THEN <<>>
  ELSE IF Head(rows).task = t
       THEN <<Head(rows).text>> \o GroupTexts(Tail(rows), t)
       ELSE GroupTexts(Tail(rows), t)

\* ------------------------------------------------------- permutations
Injective(f) == \A i, j \in DOMAIN f : i # j => f[i] # f[j]
RECURSIVE Factorial(_)
Factorial(n) == IF n <= 0 THEN 1 ELSE n * Factorial(n - 1)
\* xs without its i-th element.
Without(xs, i) == SubSeq(xs, 1, i - 1) \o SubSeq(xs, i + 1, Len(xs))
\* The j-th tuple (from 1) that itertools.permutations(xs) yields: tuples come
\* in lexicographic order of the positions, so the first element changes every
\* (n-1)! tuples and the rest runs through the permutations of what is left.
RECURSIVE NthPermutation(_, _)
NthPermutation(xs, j) ==
  IF xs = <<>> THEN <<>>
  ELSE LET m == Factorial(Len(xs) - 1)
           i == ((j - 1) \div m) + 1
       IN  <<xs[i]>> \o NthPermutation(Without(xs, i), ((j - 1) % m) + 1)
\* list(itertools.permutations(outputs)): every rearrangement of the positions,
\* equal texts at different positions being different elements.
itertools_permutations(xs) == [j \in 1..Factorial(Len(xs)) |-> NthPermutation(xs, j)]

\* np.random.choice(a, size=size, replace=False), indexes counted from 1:
\* a single integer when size is None, ValueError when the sample is larger
\* than the population, otherwise any sequence of `size` distinct indexes.
random_choice_replace(a, size) ==
  IF size = None
  THEN {[kind |-> "int", idx |-> <<i>>] : i \in 1..a}
  ELSE {[kind |-> "array", idx |-> s] : s \in [1..size -> 1..a]}
random_choice_clamped(a, size) ==
  IF size = None
  THEN {[kind |-> "int", idx |-> <<i>>] : i \in 1..a}
  ELSE LET k == IF size > a THEN a ELSE size
       IN  {[kind |-> "array", idx |-> s] : s \in {s \in [1..k -> 1..a] : Injective(s)}}
random_choice(a, size) ==
  IF size = None
  THEN {[kind |-> "int", idx |-> <<i>>] : i \in 1..a}
  ELSE IF size > a
       THEN {[kind |-> "ValueError", idx |-> <<>>]}
       ELSE {[kind |-> "array", idx |-> s] : s \in {s \in [1..size -> 1..a] : Injective(s)}}

\* ------------------------------------------------------------ reduction
\* pd.DataFrame({'task': [''] * len(generated_outputs), 'text': generated_outputs})
DataFrameReversed(texts) ==
  Frame({"task", "text"},
        [i \in 1..Len(texts) |-> [task |-> SyntheticTask, text |-> texts[Len(texts) + 1 - i]]])
DataFrame(texts) ==
  Frame({"task", "text"},
        [i \in 1..Len(texts) |-> [task |-> SyntheticTask, text |-> texts[i]]])

Count(texts, t) == Cardinality({i \in 1..Len(texts) : texts[i] = t})
\* Series.mode(): every most frequent value, as a Series in ascending order.
mode(texts) ==
  LET modes == {t \in Range(texts) : \A u \in Range(texts) : Count(texts, u) <= Count(texts, t)}
  IN  Series(SelectSeq(TextValues, LAMBDA t : t \in modes))

\* The outcomes of a fit_predict are an exception or a Series of texts indexed
\* by task; the frames below hold rows of one task only.
Raised(exception) == [raises |-> exception, index |-> <<>>, values |-> <<>>]
Returned(index, values) == [raises |-> "", index |-> index, values |-> values]

\* fit_predict of another TextSummarization (default attributes) on a frame:
\* line 75 selects three columns, then the group's texts go to its own model.
TextSummarization_fit_predict(frame) ==
  IF ~(FitPredictColumns \subseteq frame.columns)
  THEN {Raised("KeyError")}
  ELSE IF frame.rows = <<>>
       THEN {Returned(<<>>, <<>>)}
       ELSE {Returned(<<frame.rows[1].task>>, <<Str(t)>>) : t \in Texts}

\* fit_predict of an aggregator that answers each task with its first text.
FirstText_fit_predict(frame) ==
  IF ~({"task", "text"} \subseteq frame.columns)
  THEN {Raised("KeyError")}
  ELSE IF frame.rows = <<>>
       THEN {Returned(<<>>, <<>>)}
       ELSE {Returned(<<frame.rows[1].task>>, <<Str(frame.rows[1].text)>>)}

\* self.permutation_aggregator.fit_predict(data), line 102.
aggregator_fit_predict(aggregator, frame) ==
  IF aggregator = "TextSummarization"
  THEN TextSummarization_fit_predict(frame)
  ELSE FirstText_fit_predict(frame)

\* ------------------------------------------------------------ initial state
\* A count above the number of permutations of every list within the bounds.
TooMany == Factorial(MaxRecords) + 1

\* An instance with its attributes set, and one call about to be made: either
\* fit_predict(data) or _aggregate_one(arg).
Init ==
  /\ use_permutations \in BOOLEAN
  /\ n_permutations \in {None, TooMany} \cup 0..MaxPermutations
  /\ permutation_aggregator \in Aggregators
  /\ entry \in {"fit_predict", "_aggregate_one"}
  /\ data \in {Frame(FitPredictColumns, rows) :
                 rows \in IF entry = "fit_predict" THEN SeqsUpTo(Records, MaxRecords) ELSE {<<>>}}
  /\ arg \in IF entry = "_aggregate_one" THEN SeqsUpTo(Texts, MaxRecords) ELSE {<<>>}
  /\ pc = "start"
  /\ err = ""
  /\ groups = <<>>
  /\ task = SyntheticTask
  /\ tasks = <<>>
  /\ output = <<>>
  /\ result_ = NoResult
  /\ outputs = <<>>
  /\ permutations_idx = <<>>
  /\ permutations = <<>>
  /\ generated_outputs = <<>>
  /\ ret = NoValue
  /\ generated = <<>>
  /\ oracle_calls = <<>>
  /\ delegate_calls = <<>>

Raise(exception) == pc' = "raised" /\ err' = exception

\* _generate_output(permutation), lines 106-110: the model's text for the joined
\* input, the same text whenever the same input comes again.
generate_output(permutation, text) ==
  /\ text \in Texts
  /\ permutation \in DOMAIN generated => text = generated[permutation]
  /\ generated' = (permutation :> text) @@ generated
  /\ oracle_calls' = Append(oracle_calls, [task |-> task, input |-> permutation])

\* ------------------------------------------------------------ fit_predict
\* Lines 75-79: select the columns, start the loop over data.groupby('task').
fit_predict ==
  /\ pc = "start"
  /\ entry = "fit_predict"
  /\ IF FitPredictColumns \subseteq data.columns
     THEN /\ groups' = GroupKeys(data.rows)
          /\ tasks' = <<>>
          /\ output' = <<>>
          /\ pc' = "loop"
          /\ UNCHANGED <<err, task>>
     ELSE /\ Raise("KeyError")
          /\ UNCHANGED loopvars
  /\ UNCHANGED <<config, result_, locals, generated, oracle_calls, delegate_calls>>

\* Lines 80-82: the next group; call _aggregate_one(list(df['text'])).
fit_predict_group ==
  /\ pc = "loop"
  /\ groups # <<>>
  /\ task' = Head(groups)
  /\ groups' = Tail(groups)
  /\ outputs' = GroupTexts(data.rows, Head(groups))
  /\ permutations_idx' = <<>>
  /\ permutations' = <<>>
  /\ generated_outputs' = <<>>
  /\ ret' = NoValue
  /\ delegate_calls' = <<>>
  /\ pc' = "aggregate_one"
  /\ UNCHANGED <<config, err, tasks, output, result_, generated, oracle_calls>>

\* Line 82, on return: tasks and output grow together.
fit_predict_append ==
  /\ pc = "return"
  /\ entry = "fit_predict"
  /\ tasks' = Append(tasks, task)
  /\ output' = Append(output, ret)
  /\ pc' = "loop"
  /\ UNCHANGED <<config, err, groups, task, result_, locals, generated, oracle_calls,
                 delegate_calls>>

\* Lines 83-84: self.result_ = pd.Series(output, index=tasks, name='text').
fit_predict_return ==
  /\ pc = "loop"
  /\ groups = <<>>
  /\ result_' = [set |-> TRUE, index |-> tasks, values |-> output]
  /\ pc' = "done"
  /\ UNCHANGED <<config, err, loopvars, locals, generated, oracle_calls, delegate_calls>>

\* -------------------------------------------------------- _aggregate_one
\* A direct call _aggregate_one(arg).
aggregate_one_call ==
  /\ pc = "start"
  /\ entry = "_aggregate_one"
  /\ outputs' = arg
  /\ pc' = "aggregate_one"
  /\ UNCHANGED <<config, err, loopvars, result_, permutations_idx, permutations,
                 generated_outputs, ret, generated, oracle_calls, delegate_calls>>

\* Lines 88-89: without permutations, one call of the model on the input order.
aggregate_one_input_order ==
  /\ pc = "aggregate_one"
  /\ ~use_permutations
  /\ \E text \in Texts :
       /\ generate_output(outputs, text)
       /\ ret' = Str(text)
  /\ pc' = "return"
  /\ UNCHANGED <<config, err, loopvars, result_, outputs, permutations_idx, permutations,
                 generated_outputs, delegate_calls>>

\* Lines 91-96: enumerate the permutations, draw n_permutations of them.
aggregate_one_sample ==
  /\ pc = "aggregate_one"
  /\ use_permutations
  /\ \E choice \in random_choice(Len(itertools_permutations(outputs)), n_permutations) :
       /\ permutations_idx' = choice.idx
       /\ CASE choice.kind = "ValueError" ->
                 \* line 95 raises
                 /\ Raise("ValueError")
                 /\ UNCHANGED permutations
            [] choice.kind = "int" ->
                 \* line 96 iterates over an integer
                 /\ Raise("TypeError")
                 /\ UNCHANGED permutations
            [] OTHER ->
                 /\ permutations' = [i \in 1..Len(choice.idx) |->
                                       itertools_permutations(outputs)[choice.idx[i]]]
                 /\ pc' = "generate"
                 /\ UNCHANGED err
  /\ UNCHANGED <<config, loopvars, result_, outputs, generated_outputs, ret, generated,
                 oracle_calls, delegate_calls>>

\* Lines 97-98: one call of the model per drawn permutation, in order.
aggregate_one_generate ==
  /\ pc = "generate"
  /\ Len(generated_outputs) < Len(permutations)
  /\ \E text \in Texts :
       /\ generate_output(permutations[Len(generated_outputs) + 1], text)
       /\ generated_outputs' = Append(generated_outputs, text)
  /\ UNCHANGED <<config, pc, err, loopvars, result_, outputs, permutations_idx, permutations,
                 ret, delegate_calls>>

\* Lines 100-103: frame the generated outputs under one task, then either the
\* permutation_aggregator's text for that task or the mode of the outputs.
aggregate_one_reduce ==
  /\ pc = "generate"
  /\ Len(generated_outputs) = Len(permutations)
  /\ IF permutation_aggregator # "None"
     THEN /\ delegate_calls' = Append(delegate_calls, DataFrame(generated_outputs))
          /\ \E r \in aggregator_fit_predict(permutation_aggregator, DataFrame(generated_outputs)) :
               IF r.raises # ""
               THEN Raise(r.raises) /\ UNCHANGED ret
               ELSE IF \A i \in 1..Len(r.index) : r.index[i] # SyntheticTask
                    THEN Raise("KeyError") /\ UNCHANGED ret
                    ELSE /\ ret' = r.values[CHOOSE i \in 1..Len(r.index) : r.index[i] = SyntheticTask]
                         /\ pc' = "return"
                         /\ UNCHANGED err
     ELSE /\ ret' = mode(generated_outputs)
          /\ pc' = "return"
          /\ UNCHANGED <<err, delegate_calls>>
  /\ UNCHANGED <<config, loopvars, result_, outputs, permutations_idx, permutations,
                 generated_outputs, generated, oracle_calls>>

\* The direct call returns to its caller.
aggregate_one_return ==
  /\ pc = "return"
  /\ entry = "_aggregate_one"
  /\ pc' = "done"
  /\ UNCHANGED <<config, err, loopvars, result_, locals, generated, oracle_calls,
                 delegate_calls>>

Next ==
  \/ fit_predict
  \/ fit_predict_group
  \/ fit_predict_append
  \/ fit_predict_return
  \/ aggregate_one_call
  \/ aggregate_one_input_order
  \/ aggregate_one_sample
  \/ aggregate_one_generate
  \/ aggregate_one_reduce
  \/ aggregate_one_return

Spec == Init /\ [][Next]_vars

\* ================================================================ properties
PermSet(n) == {p \in [1..n -> 1..n] : Injective(p)}

\* The distinct task ids of the input records.
InputTasks == {data.rows[i].task : i \in 1..Len(data.rows)}
\* The texts of the records of task t, as they follow each other in the input.
InputOrderTexts(t) ==
  LET rows == SelectSeq(data.rows, LAMBDA r : r.task = t)
  IN  [i \in 1..Len(rows) |-> rows[i].text]
\* The calls of the model made while task t was being aggregated.
CallsFor(t) == SelectSeq(oracle_calls, LAMBDA c : c.task = t)
\* xs rearranged by the permutation p of its positions.
Rearranged(xs, p) == [k \in 1..Len(xs) |-> xs[p[k]]]
\* The most frequent text of cs; among several, the one that comes first in cs.
FirstMostFrequent(cs) ==
  LET best == {i \in 1..Len(cs) : \A j \in 1..Len(cs) : Count(cs, cs[j]) <= Count(cs, cs[i])}
  IN  cs[CHOOSE i \in best : \A j \in best : i <= j]
\* _aggregate_one has gone past the sampling of line 95 for the current outputs.
Sampled == pc \in {"generate", "return"}
\* The current call of _aggregate_one is over: it returned or it raised.
Ended == pc \in {"return", "raised"}

\* C1: without permutations, a finished fit_predict has called the model exactly
\* once per distinct task, on that task's texts in input order, and the
\* task's result is the text of that one call.
C1_OneCallPerTaskInInputOrder ==
  (entry = "fit_predict" /\ ~use_permutations) =>
    /\ \A t \in Tasks : Len(CallsFor(t)) <= 1
    /\ pc = "done" =>
         /\ Len(oracle_calls) = Cardinality(InputTasks)
         /\ \A t \in InputTasks :
              /\ Len(CallsFor(t)) = 1
              /\ CallsFor(t)[1].input = InputOrderTexts(t)
              /\ \E i \in 1..Len(result_.index) :
                   /\ result_.index[i] = t
                   /\ result_.values[i] = Str(generated[InputOrderTexts(t)])
C1_Witness ==
  /\ pc = "done" /\ entry = "fit_predict" /\ ~use_permutations
  /\ Len(data.rows) = 2
  /\ data.rows[1].task = data.rows[2].task
  /\ data.rows[1].text = "b" /\ data.rows[2].text = "a"
  /\ Len(oracle_calls) = 1

\* The permutations of the positions of outputs that produce the ordering o.
Producing(o) == {p \in PermSet(Len(outputs)) : Rearranged(outputs, p) = o}

\* C2 (as amended): with permutations and a count K <= N!, exactly K orderings
\* are drawn, each a rearrangement of the group's texts, and they come from K
\* pairwise different permutations of the positions: each ordering is produced
\* by some permutation of the positions, and no ordering occurs more often
\* than there are permutations of the positions producing it (orderings that
\* differ as sequences are produced by disjoint sets of permutations, so this
\* is the same as assigning each drawn ordering a permutation of its own).
C2_DistinctPositionalPermutations ==
  (use_permutations /\ n_permutations # None /\ Sampled
     /\ n_permutations <= Factorial(Len(outputs))) =>
    /\ Len(permutations) = n_permutations
    /\ \A i \in 1..Len(permutations) :
         /\ Producing(permutations[i]) # {}
         /\ Cardinality({j \in 1..Len(permutations) : permutations[j] = permutations[i]})
              <= Cardinality(Producing(permutations[i]))
C2_Witness ==
  /\ use_permutations /\ n_permutations = 2 /\ pc = "generate"
  /\ outputs = <<"a", "a">>
  /\ Len(permutations) = 2
  /\ permutations[1] = permutations[2]
\* C2 as stated: ... and no two of the orderings are the same sequence of texts.
C2_DistinctTextSequences ==
  (use_permutations /\ n_permutations # None /\ Sampled
     /\ n_permutations <= Factorial(Len(outputs))) =>
    /\ Len(permutations) = n_permutations
    /\ \A i \in 1..Len(permutations) :
         \E p \in PermSet(Len(outputs)) : permutations[i] = Rearranged(outputs, p)
    /\ \A i, j \in 1..Len(permutations) : i # j => permutations[i] # permutations[j]

\* C3: with several generated outputs and no permutation_aggregator,
\* _aggregate_one returns one text, the most frequent output, and among
\* equally frequent outputs the one generated first.
C3_PluralityFirstOccurring ==
  (use_permutations /\ permutation_aggregator = "None" /\ pc = "return"
     /\ Len(generated_outputs) > 1) =>
    ret.values = <<FirstMostFrequent(generated_outputs)>>

\* C4: with permutations and a permutation_aggregator, the aggregator is called
\* exactly once, on one record per generated output, all under the same task
\* key and in the order of generation, and _aggregate_one returns the
\* aggregator's text for that key (the first output, for the aggregator that
\* answers with its first text).
C4_DelegateGetsCandidatesInOrder ==
  (use_permutations /\ permutation_aggregator # "None") =>
    /\ Len(delegate_calls) <= 1
    /\ pc \in {"aggregate_one", "generate"} => delegate_calls = <<>>
    /\ (pc = "return" \/ (pc = "raised" /\ err = "KeyError")) =>
         /\ Len(delegate_calls) = 1
         /\ Len(delegate_calls[1].rows) = Len(generated_outputs)
         /\ \A i \in 1..Len(generated_outputs) :
              /\ delegate_calls[1].rows[i].task = delegate_calls[1].rows[1].task
              /\ delegate_calls[1].rows[i].text = generated_outputs[i]
    /\ (pc = "return" /\ permutation_aggregator = "FirstText") =>
         ret = Str(generated_outputs[1])
C4_Witness ==
  /\ use_permutations /\ permutation_aggregator = "FirstText" /\ pc = "return"
  /\ generated_outputs = <<"b", "a">>
  /\ Len(delegate_calls) = 1
  /\ ret = Str("b")

C7_SingleTextNeverFails ==
  (use_permutations /\ n_permutations # None /\ n_permutations >= 1
     /\ Len(outputs) = 1 /\ pc \in {"generate", "return", "raised"}) =>
    /\ ~(pc = "raised" /\ err = "ValueError")
    /\ pc \in {"generate", "return"} => Len(permutations) = 1
    /\ pc = "return" => Len(CallsFor(task)) = 1

\* C8: with n_permutations = None, _aggregate_one calls the model once, on the
\* texts in input order, and ends without error, with or without permutations.
C8_NoneUsesInputOrder ==
  (n_permutations = None /\ Ended) =>
    /\ pc # "raised"
    /\ CallsFor(task) = <<[task |-> task, input |-> outputs]>>

\* C9: _aggregate_one on an empty list ends with EmptyGroupError; the model is
\* not called and nothing is returned.
C9_EmptyGroupError ==
  (entry = "_aggregate_one" /\ arg = <<>> /\ pc \in {"generate", "return", "raised", "done"}) =>
    /\ pc = "raised"
    /\ err = "EmptyGroupError"
    /\ oracle_calls = <<>>

\* C10: the frame handed to the permutation_aggregator has the columns of
\* fit_predict's own input, so another TextSummarization as the aggregator
\* completes without error.
C10_DelegateRecordShape ==
  (permutation_aggregator = "TextSummarization" /\ delegate_calls # <<>>
     /\ Len(generated_outputs) >= 1) =>
    /\ \A i \in 1..Len(delegate_calls) : delegate_calls[i].columns = data.columns
    /\ pc # "raised"

====
